---- MODULE Spec2Model ----
(***************************************************************************)
(* Beholder: the Cloudflare Worker API of the London beauty heatmap, the    *)
(* parsing of the AI reply (aiCall) and the zoom logic of the frontend     *)
(* (app).                                                                  *)
(*                                                                         *)
(* The D1 worker (src/unnamed/part_000) stores rated points in the table   *)
(* points and keeps two aggregate tables heat_r7 and heat_r9.  Every       *)
(* `await` of the fetch handler is a place where another request can run,  *)
(* and every D1 statement (.run(), .first(), .all()) commits on its own,   *)
(* so POST /point is modelled as one action per awaited step.              *)
(*                                                                         *)
(* Numbers: beauty scores are whole numbers, the generated column avg is   *)
(* kept in tenths (ROUND(sum / cnt, 1) * 10).  A null / absent number is   *)
(* 0 where the code only tests truthiness, a null text is NullText.        *)
(* Coordinates are points of a small grid; an H3 cell of resolution res is *)
(* <<res, i, j>>, a square of CellSize(res) grid points.                   *)
(***************************************************************************)
EXTENDS Integers, Sequences, FiniteSets, TLC

VARIABLES
    points,         \* table points: rows in insertion order, id = position
    heat_r7,        \* table heat_r7: h3 -> [sum, cnt]; DOMAIN = rows present
    heat_r9,        \* table heat_r9
    pc,             \* per POST /point request: the await it is suspended at
    body,           \* per request: the parsed JSON body
    geoResult,      \* per request: result of geocodeAddress
    finalImageUrl,  \* per request: the local finalImageUrl ("" = unset)
    aiResult,       \* per request: the local aiResult
    calls,          \* per request: external services called so far, in order
    insertId,       \* per request: insertResult.meta.last_row_id (0 = none)
    response,       \* per request: the Response returned
    getResp,        \* the Response of the last GET /heat or GET /points
    aiCall,         \* one call of evaluateAesthetics: the reply and the result
    app,            \* the BeautyHeatmap object of the frontend
    client          \* one request to the Postgres worker and its Client

postVars == <<pc, body, geoResult, finalImageUrl, aiResult, calls, insertId, response>>
dbVars   == <<points, heat_r7, heat_r9>>
otherVars == <<aiCall, app, client>>
vars     == <<points, heat_r7, heat_r9, pc, body, geoResult, finalImageUrl,
              aiResult, calls, insertId, response, getResp, aiCall, app, client>>

(***************************************************************************)
(* Values                                                                  *)
(***************************************************************************)
NullText == "<null>"

Reqs == {"r1", "r2"}

\* Addresses a client may send; "" is the missing / empty address and "zz"
\* an address the geocoder has no result for.
Addresses == {"", "a", "b", "c", "zz"}

NoGeo == [ok |-> FALSE, place_id |-> NullText, lat |-> 0, lng |-> 0,
          formatted_address |-> NullText]

\* geocodeAddress: the first result of the Geocoding API, or null.
geocodeAddress(address) ==
    CASE address = "a" -> [ok |-> TRUE, place_id |-> "P1", lat |-> 1, lng |-> 1,
                           formatted_address |-> "A St"]
      [] address = "b" -> [ok |-> TRUE, place_id |-> "P2", lat |-> 1, lng |-> 2,
                           formatted_address |-> "B St"]
      [] address = "c" -> [ok |-> TRUE, place_id |-> "P3", lat |-> 5, lng |-> 6,
                           formatted_address |-> "C St"]
      [] OTHER -> NoGeo

\* h3-js latLngToCell / cellToLatLng on the grid.
CellSize(res) == IF res = 7 THEN 4 ELSE IF res = 9 THEN 2 ELSE 1

latLngToCell(lat, lng, res) == <<res, lat \div CellSize(res), lng \div CellSize(res)>>

cellToLatLng(h3) ==
    [lat |-> h3[2] * CellSize(h3[1]) + CellSize(h3[1]) \div 2,
     lng |-> h3[3] * CellSize(h3[1]) + CellSize(h3[1]) \div 2]

\* Request bodies of POST /point.
Images == {[imageUrl |-> "", imageData |-> ""],
           [imageUrl |-> "http://img", imageData |-> ""],
           [imageUrl |-> "", imageData |-> "b64"]}

Precomputed == {[precomputedBeauty |-> 0, precomputedReview |-> ""],
                [precomputedBeauty |-> 5, precomputedReview |-> "pre"],
                [precomputedBeauty |-> 5, precomputedReview |-> ""],
                [precomputedBeauty |-> 11, precomputedReview |-> "pre"],
                [precomputedBeauty |-> -1, precomputedReview |-> "pre"]}

Bodies ==
    {[address |-> a, imageUrl |-> i.imageUrl, imageData |-> i.imageData,
      precomputedBeauty |-> p.precomputedBeauty,
      precomputedReview |-> p.precomputedReview] :
        a \in Addresses, i \in Images, p \in Precomputed}

NoBody == [address |-> "", imageUrl |-> "", imageData |-> "",
           precomputedBeauty |-> 0, precomputedReview |-> ""]

NoAi == [beauty |-> 0, blurb |-> NullText]

NoResponse == [status |-> 0, message |-> "", error |-> "", point |-> <<>>,
               headers |-> {}]

(***************************************************************************)
(* evaluateAesthetics (src/api/ai-evaluation.js).  A reply of the model is *)
(* what the two regular expressions and the fallback scan see of it: the   *)
(* text after REVIEW: (NullText without a match), the number after SCORE:  *)
(* (-1 without a match) and all numbers of the text in order.  failed      *)
(* stands for a thrown fetch / image error, which the function catches.    *)
(***************************************************************************)
AIReplies ==
    {[failed |-> TRUE,  review |-> NullText, score |-> -1, numbers |-> <<>>],
     [failed |-> FALSE, review |-> "nice",   score |-> 7,  numbers |-> <<7>>],
     [failed |-> FALSE, review |-> "nice",   score |-> 15, numbers |-> <<15>>],
     [failed |-> FALSE, review |-> NullText, score |-> 0,  numbers |-> <<0>>],
     [failed |-> FALSE, review |-> NullText, score |-> -1, numbers |-> <<12, 3>>],
     [failed |-> FALSE, review |-> "nice",   score |-> -1, numbers |-> <<0, 2, 4>>],
     [failed |-> FALSE, review |-> NullText, score |-> -1, numbers |-> <<>>]}

Max(a, b) == IF a >= b THEN a ELSE b
Min(a, b) == IF a <= b THEN a ELSE b

\* The first number of the reply within [1, 10], 0 (null) without one.
RECURSIVE FirstInRange(_)
FirstInRange(numbers) ==
    IF numbers = <<>> THEN 0
    ELSE IF Head(numbers) >= 1 /\ Head(numbers) <= 10 THEN Head(numbers)
    ELSE FirstInRange(Tail(numbers))

\* evaluateAesthetics that takes the number after SCORE: as it stands.
evaluateAestheticsNoClamp(reply) ==
    IF reply.failed THEN NoAi
    ELSE [beauty |-> IF reply.score >= 0
                     THEN reply.score
                     ELSE FirstInRange(reply.numbers),
          blurb  |-> reply.review]

evaluateAesthetics(reply) ==
    IF reply.failed THEN NoAi
    ELSE [beauty |-> IF reply.score >= 0
                     THEN Max(1, Min(10, reply.score))
                     ELSE FirstInRange(reply.numbers),
          blurb  |-> reply.review]

(***************************************************************************)
(* The text of a reply, as the regular expressions of evaluateAesthetics   *)
(* read it: a sequence of tokens, each the label REVIEW:, the label SCORE:,*)
(* a number (\d+) or any other word.                                       *)
(***************************************************************************)
ReplyNumbers == {0, 1, 7, 10, 11}

Tokens ==
    {[kind |-> k, val |-> 0] : k \in {"REVIEW:", "SCORE:", "word"}}
    \cup {[kind |-> "num", val |-> n] : n \in ReplyNumbers}

MaxReplyLen == 3

ReplyTexts == UNION {[1..k -> Tokens] : k \in 0..MaxReplyLen}

\* text.match(/SCORE:\s*(\d+(?:\.\d+)?)/i): the number that follows the first
\* SCORE: that is followed by a number, -1 without a match.
RECURSIVE ScoreMatch(_)
ScoreMatch(text) ==
    IF Len(text) < 2 THEN -1
    ELSE IF text[1].kind = "SCORE:" /\ text[2].kind = "num" THEN text[2].val
    ELSE ScoreMatch(Tail(text))

\* text.match(/REVIEW:\s*(.+?)(?=SCORE:|$)/si): the text after the first
\* REVIEW: that has any text after it, null without a match.
RECURSIVE ReviewMatch(_)
ReviewMatch(text) ==
    IF Len(text) < 2 THEN NullText
    ELSE IF text[1].kind = "REVIEW:" THEN "nice"
    ELSE ReviewMatch(Tail(text))

\* text.match(/\b(\d+(?:\.\d+)?)\b/g): all numbers of the text, in order.
RECURSIVE NumberMatches(_)
NumberMatches(text) ==
    IF text = <<>> THEN <<>>
    ELSE IF Head(text).kind = "num"
         THEN <<Head(text).val>> \o NumberMatches(Tail(text))
         ELSE NumberMatches(Tail(text))

\* What evaluateAesthetics sees of a reply text that arrived.
ParseReply(text) ==
    [failed |-> FALSE, review |-> ReviewMatch(text), score |-> ScoreMatch(text),
     numbers |-> NumberMatches(text)]

FailedReply == [failed |-> TRUE, review |-> NullText, score |-> -1, numbers |-> <<>>]

NoAiCall == [failed |-> FALSE, text |-> <<>>, result |-> NoAi, done |-> FALSE]

\* One call of evaluateAesthetics on the reply aiCall holds.
Evaluate ==
    /\ ~aiCall.done
    /\ aiCall' = [aiCall EXCEPT
                     !.result = evaluateAesthetics(IF aiCall.failed THEN FailedReply
                                                   ELSE ParseReply(aiCall.text)),
                     !.done = TRUE]
    /\ UNCHANGED <<dbVars, postVars, getResp, app, client>>

\* The secrets of the worker's environment.
env == [GOOGLE_MAPS_API_KEY |-> "<google-maps-key>", GEMINI_API_KEY |-> "<gemini-key>"]

\* getStreetViewImageUrl: the Street View Static API URL of the best panorama,
\* built with the query parameter key = env.GOOGLE_MAPS_API_KEY.
StreetViewUrl == "https://maps.googleapis.com/maps/api/streetview?key=<google-maps-key>"

\* getStreetViewImageUrl: a URL, or "" (null) without Street View coverage.
StreetViewUrls == {"", StreetViewUrl}

\* GET /maps-script: the script URL, built with key = env.GOOGLE_MAPS_API_KEY.
scriptUrl == "https://maps.googleapis.com/maps/api/js?key=<google-maps-key>"

\* The secrets a text of the model carries, by the way the code builds it.
KeysIn(text) ==
    IF text \in {StreetViewUrl, scriptUrl} THEN {env.GOOGLE_MAPS_API_KEY} ELSE {}

(***************************************************************************)
(* The D1 database (src/database/migrations/001_init.sql, lines 121-173)   *)
(***************************************************************************)
\* The columns the two SELECTs of POST /point read (no h3 column).
PointColumns(row) ==
    [id |-> row.id, place_id |-> row.place_id, beauty |-> row.beauty,
     description |-> row.description, address |-> row.address,
     lat |-> row.lat, lng |-> row.lng, image_url |-> row.image_url]

\* SELECT ... FROM points WHERE place_id = ?  (.first())
SelectByPlaceId(place_id) ==
    LET found == SelectSeq(points, LAMBDA row : row.place_id = place_id)
    IN  [i \in 1..Len(found) |-> PointColumns(found[i])]

\* SELECT ... FROM points WHERE id = ?  (.first())
SelectById(id) == PointColumns(points[id])

\* InsertAccepted without the UNIQUE constraint on place_id.
InsertAcceptedNoUnique(row) ==
    /\ row.place_id # NullText
    /\ row.beauty >= 1 /\ row.beauty <= 10
    /\ row.description # NullText
    /\ row.address # NullText

\* InsertAccepted without the CHECK constraint on beauty.
InsertAcceptedNoCheck(row) ==
    /\ row.place_id # NullText
    /\ \A i \in 1..Len(points) : points[i].place_id # row.place_id
    /\ row.description # NullText
    /\ row.address # NullText

\* The constraints of table points that an INSERT has to satisfy.
InsertAccepted(row) ==
    /\ row.place_id # NullText
    /\ \A i \in 1..Len(points) : points[i].place_id # row.place_id
    /\ row.beauty >= 1 /\ row.beauty <= 10
    /\ row.description # NullText
    /\ row.address # NullText

\* Upsert whose conflict branch overwrites sum instead of adding to it.
UpsertOverwrite(heat, h3, beauty) ==
    IF h3 \in DOMAIN heat
    THEN [heat EXCEPT ![h3] = [sum |-> beauty, cnt |-> @.cnt + 1]]
    ELSE heat @@ (h3 :> [sum |-> beauty, cnt |-> 1])

\* Upsert that replaces the table by the one row it writes.
UpsertDropOthers(heat, h3, beauty) ==
    IF h3 \in DOMAIN heat
    THEN (h3 :> [sum |-> heat[h3].sum + beauty, cnt |-> heat[h3].cnt + 1])
    ELSE (h3 :> [sum |-> beauty, cnt |-> 1])

\* INSERT INTO heat (h3, sum, cnt) VALUES (?, ?, 1)
\*   ON CONFLICT(h3) DO UPDATE SET sum = sum + excluded.sum, cnt = cnt + 1
Upsert(heat, h3, beauty) ==
    IF h3 \in DOMAIN heat
    THEN [heat EXCEPT ![h3] = [sum |-> @.sum + beauty, cnt |-> @.cnt + 1]]
    ELSE heat @@ (h3 :> [sum |-> beauty, cnt |-> 1])

\* The generated column avg, in tenths: ROUND(sum / cnt, 1), NULL (0) for cnt = 0.
Avg(row) ==
    IF row.cnt > 0 THEN (20 * row.sum + row.cnt) \div (2 * row.cnt) ELSE 0

(***************************************************************************)
(* POST /point (src/unnamed/part_000, lines 44-164)                        *)
(***************************************************************************)
\* corsHeaders (src/api/utils.js)
corsHeaders ==
    {<<"Access-Control-Allow-Origin", "*">>,
     <<"Access-Control-Allow-Methods", "GET, POST, OPTIONS">>,
     <<"Access-Control-Allow-Headers", "Content-Type, Authorization">>}

\* corsResponse that returns the response as it got it.
corsResponseDropped(resp) == resp

\* corsResponse: headers.set of every CORS header on the response.
corsResponse(resp) ==
    [resp EXCEPT !.headers =
        {h \in @ : \A c \in corsHeaders : c[1] # h[1]} \cup corsHeaders]

\* new Response(JSON.stringify(...), {status, headers: {'Content-Type': ...}})
Reply(status, error, message, point) ==
    [status |-> status, error |-> error, message |-> message, point |-> point,
     headers |-> {<<"Content-Type", "application/json">>}]

Return(r, resp) ==
    /\ response' = [response EXCEPT ![r] = resp]
    /\ pc' = [pc EXCEPT ![r] = "done"]

\* request.json(), the address check and geocodeAddress.
Receive(r, b) ==
    /\ pc[r] = "idle"
    /\ body' = [body EXCEPT ![r] = b]
    /\ IF b.address = ""
       THEN /\ Return(r, corsResponse(Reply(400, "Address is required", "", <<>>)))
            /\ UNCHANGED <<geoResult, calls>>
       ELSE /\ geoResult' = [geoResult EXCEPT ![r] = geocodeAddress(b.address)]
            /\ calls' = [calls EXCEPT ![r] = Append(@, "geocode")]
            /\ IF geoResult'[r].ok
               THEN /\ pc' = [pc EXCEPT ![r] = "exists"]
                    /\ UNCHANGED response
               ELSE Return(r, corsResponse(Reply(400, "Failed to geocode address", "", <<>>)))
    /\ UNCHANGED <<dbVars, finalImageUrl, aiResult, insertId, getResp, otherVars>>

\* ExistsCheck that goes on to the image even for a stored place.
ExistsCheckSkipped(r) ==
    /\ pc[r] = "exists"
    /\ pc' = [pc EXCEPT ![r] = "image"]
    /\ UNCHANGED <<dbVars, body, geoResult, finalImageUrl, aiResult, calls,
                   insertId, response, getResp, otherVars>>

\* The existence check: an existing place is returned at once.
ExistsCheck(r) ==
    /\ pc[r] = "exists"
    /\ LET existing == IF geoResult[r].place_id \notin {"", NullText}
                       THEN SelectByPlaceId(geoResult[r].place_id)
                       ELSE <<>>
       IN  IF existing # <<>>
           THEN Return(r, corsResponse(Reply(200, "", "Location already exists in database",
                                <<Head(existing)>>)))
           ELSE /\ pc' = [pc EXCEPT ![r] = "image"]
                /\ UNCHANGED response
    /\ UNCHANGED <<dbVars, body, geoResult, finalImageUrl, aiResult, calls,
                   insertId, getResp, otherVars>>

\* ImageStep that goes on to the score whatever Street View returned.
ImageStepUnchecked(r) ==
    /\ pc[r] = "image"
    /\ IF body[r].imageUrl # ""
       THEN /\ finalImageUrl' = [finalImageUrl EXCEPT ![r] = body[r].imageUrl]
            /\ UNCHANGED calls
       ELSE IF body[r].imageData # ""
       THEN /\ finalImageUrl' = [finalImageUrl EXCEPT ![r] = "uploaded_image"]
            /\ UNCHANGED calls
       ELSE \E url \in StreetViewUrls :
            /\ calls' = [calls EXCEPT ![r] = Append(@, "streetview")]
            /\ finalImageUrl' = [finalImageUrl EXCEPT ![r] = url]
    /\ pc' = [pc EXCEPT ![r] = "score"]
    /\ UNCHANGED <<dbVars, body, geoResult, aiResult, insertId, response,
                   getResp, otherVars>>

\* Determine the image source; Street View is asked only without an image.
ImageStep(r) ==
    /\ pc[r] = "image"
    /\ IF body[r].imageUrl # ""
       THEN /\ finalImageUrl' = [finalImageUrl EXCEPT ![r] = body[r].imageUrl]
            /\ pc' = [pc EXCEPT ![r] = "score"]
            /\ UNCHANGED <<calls, response>>
       ELSE IF body[r].imageData # ""
       THEN /\ finalImageUrl' = [finalImageUrl EXCEPT ![r] = "uploaded_image"]
            /\ pc' = [pc EXCEPT ![r] = "score"]
            /\ UNCHANGED <<calls, response>>
       ELSE \E url \in StreetViewUrls :
            /\ calls' = [calls EXCEPT ![r] = Append(@, "streetview")]
            /\ finalImageUrl' = [finalImageUrl EXCEPT ![r] = url]
            /\ IF url = ""
               THEN Return(r, corsResponse(Reply(400,
                        "No Street View imagery available for this address", "", <<>>)))
               ELSE /\ pc' = [pc EXCEPT ![r] = "score"]
                    /\ UNCHANGED response
    /\ UNCHANGED <<dbVars, body, geoResult, aiResult, insertId, getResp, otherVars>>

\* ScoreStep that takes the precomputed values when either one is supplied.
ScoreStepEither(r) ==
    /\ pc[r] = "score"
    /\ IF body[r].precomputedBeauty # 0 \/ body[r].precomputedReview # ""
       THEN /\ aiResult' = [aiResult EXCEPT ![r] =
                               [beauty |-> body[r].precomputedBeauty,
                                blurb  |-> body[r].precomputedReview]]
            /\ pc' = [pc EXCEPT ![r] = "insert"]
            /\ UNCHANGED <<calls, response>>
       ELSE \E reply \in AIReplies :
            /\ calls' = [calls EXCEPT ![r] = Append(@, "ai")]
            /\ aiResult' = [aiResult EXCEPT ![r] = evaluateAesthetics(reply)]
            /\ IF aiResult'[r].beauty = 0
               THEN Return(r, corsResponse(Reply(500, "Failed to evaluate aesthetics", "", <<>>)))
               ELSE /\ pc' = [pc EXCEPT ![r] = "insert"]
                    /\ UNCHANGED response
    /\ UNCHANGED <<dbVars, body, geoResult, finalImageUrl, insertId, getResp, otherVars>>

\* ScoreStep that goes on to the INSERT whatever the AI returned.
ScoreStepUnchecked(r) ==
    /\ pc[r] = "score"
    /\ IF body[r].precomputedBeauty # 0 /\ body[r].precomputedReview # ""
       THEN /\ aiResult' = [aiResult EXCEPT ![r] =
                               [beauty |-> body[r].precomputedBeauty,
                                blurb  |-> body[r].precomputedReview]]
            /\ UNCHANGED calls
       ELSE \E reply \in AIReplies :
            /\ calls' = [calls EXCEPT ![r] = Append(@, "ai")]
            /\ aiResult' = [aiResult EXCEPT ![r] = evaluateAesthetics(reply)]
    /\ pc' = [pc EXCEPT ![r] = "insert"]
    /\ UNCHANGED <<dbVars, body, geoResult, finalImageUrl, insertId, response,
                   getResp, otherVars>>

\* Precomputed values, or the AI evaluation.
ScoreStep(r) ==
    /\ pc[r] = "score"
    /\ IF body[r].precomputedBeauty # 0 /\ body[r].precomputedReview # ""
       THEN /\ aiResult' = [aiResult EXCEPT ![r] =
                               [beauty |-> body[r].precomputedBeauty,
                                blurb  |-> body[r].precomputedReview]]
            /\ pc' = [pc EXCEPT ![r] = "insert"]
            /\ UNCHANGED <<calls, response>>
       ELSE \E reply \in AIReplies :
            /\ calls' = [calls EXCEPT ![r] = Append(@, "ai")]
            /\ aiResult' = [aiResult EXCEPT ![r] = evaluateAesthetics(reply)]
            /\ IF aiResult'[r].beauty = 0
               THEN Return(r, corsResponse(Reply(500, "Failed to evaluate aesthetics", "", <<>>)))
               ELSE /\ pc' = [pc EXCEPT ![r] = "insert"]
                    /\ UNCHANGED response
    /\ UNCHANGED <<dbVars, body, geoResult, finalImageUrl, insertId, getResp, otherVars>>

\* The row that POST /point binds to its INSERT.
NewRow(r) ==
    [id          |-> Len(points) + 1,
     place_id    |-> geoResult[r].place_id,
     beauty      |-> aiResult[r].beauty,
     description |-> aiResult[r].blurb,
     address     |-> geoResult[r].formatted_address,
     lat         |-> geoResult[r].lat,
     lng         |-> geoResult[r].lng,
     h3_r7       |-> latLngToCell(geoResult[r].lat, geoResult[r].lng, 7),
     h3_r9       |-> latLngToCell(geoResult[r].lat, geoResult[r].lng, 9),
     h3_r13      |-> latLngToCell(geoResult[r].lat, geoResult[r].lng, 13),
     image_url   |-> finalImageUrl[r]]

\* InsertPoint as INSERT OR IGNORE: a row whose place_id is stored is skipped
\* without an error and the request goes on with the stored row.
InsertPointOrIgnore(r) ==
    /\ pc[r] = "insert"
    /\ IF InsertAccepted(NewRow(r))
       THEN /\ points' = Append(points, NewRow(r))
            /\ insertId' = [insertId EXCEPT ![r] = Len(points) + 1]
            /\ pc' = [pc EXCEPT ![r] = "heat_r7"]
            /\ UNCHANGED response
       ELSE IF InsertAcceptedNoUnique(NewRow(r))
       THEN /\ insertId' = [insertId EXCEPT ![r] =
                               CHOOSE i \in 1..Len(points) :
                                   points[i].place_id = NewRow(r).place_id]
            /\ pc' = [pc EXCEPT ![r] = "heat_r7"]
            /\ UNCHANGED <<points, response>>
       ELSE /\ Return(r, corsResponse(Reply(500, "Internal server error", "", <<>>)))
            /\ UNCHANGED <<points, insertId>>
    /\ UNCHANGED <<heat_r7, heat_r9, body, geoResult, finalImageUrl, aiResult,
                   calls, getResp, otherVars>>

\* INSERT INTO points; a violated constraint throws into the catch block.
InsertPoint(r) ==
    /\ pc[r] = "insert"
    /\ IF InsertAccepted(NewRow(r))
       THEN /\ points' = Append(points, NewRow(r))
            /\ insertId' = [insertId EXCEPT ![r] = Len(points) + 1]
            /\ pc' = [pc EXCEPT ![r] = "heat_r7"]
            /\ UNCHANGED response
       ELSE /\ Return(r, corsResponse(Reply(500, "Internal server error", "", <<>>)))
            /\ UNCHANGED <<points, insertId>>
    /\ UNCHANGED <<heat_r7, heat_r9, body, geoResult, finalImageUrl, aiResult,
                   calls, getResp, otherVars>>

\* updateHeatAggregates, first statement.
UpsertHeatR7(r) ==
    /\ pc[r] = "heat_r7"
    /\ heat_r7' = Upsert(heat_r7, points[insertId[r]].h3_r7, aiResult[r].beauty)
    /\ pc' = [pc EXCEPT ![r] = "heat_r9"]
    /\ UNCHANGED <<points, heat_r9, body, geoResult, finalImageUrl, aiResult,
                   calls, insertId, response, getResp, otherVars>>

\* updateHeatAggregates, second statement.
UpsertHeatR9(r) ==
    /\ pc[r] = "heat_r9"
    /\ heat_r9' = Upsert(heat_r9, points[insertId[r]].h3_r9, aiResult[r].beauty)
    /\ pc' = [pc EXCEPT ![r] = "select"]
    /\ UNCHANGED <<points, heat_r7, body, geoResult, finalImageUrl, aiResult,
                   calls, insertId, response, getResp, otherVars>>

\* SELECT ... FROM points WHERE id = ? and the 201 response.
SelectNew(r) ==
    /\ pc[r] = "select"
    /\ Return(r, corsResponse(Reply(201, "", "", <<SelectById(insertId[r])>>)))
    /\ UNCHANGED <<dbVars, body, geoResult, finalImageUrl, aiResult, calls,
                   insertId, getResp, otherVars>>

(***************************************************************************)
(* GET /heat and GET /points (src/unnamed/part_000, lines 166-243)         *)
(***************************************************************************)
\* The query parameter z is a string of characters; ZNull is what parseInt
\* sees of a missing parameter (searchParams.get gives null).
Digits == {"0", "1", "2", "3", "4", "5", "6", "7", "8", "9"}
Chars  == Digits \cup {"-", "a"}
ZNull  == <<"n", "u", "l", "l">>
MaxZLen == 2
ZParams == UNION {[1..k -> Chars] : k \in 0..MaxZLen} \cup {ZNull}

DigitVal(c) ==
    CASE c = "0" -> 0 [] c = "1" -> 1 [] c = "2" -> 2 [] c = "3" -> 3
      [] c = "4" -> 4 [] c = "5" -> 5 [] c = "6" -> 6 [] c = "7" -> 7
      [] c = "8" -> 8 [] c = "9" -> 9

\* The value of the longest prefix of digits of str, continuing from acc.
RECURSIVE DigitsPrefix(_, _)
DigitsPrefix(str, acc) ==
    IF str = <<>> \/ Head(str) \notin Digits THEN acc
    ELSE DigitsPrefix(Tail(str), 10 * acc + DigitVal(Head(str)))

\* JavaScript parseInt: an optional sign, then the leading digits; NaN
\* when no digit follows.
parseInt(str) ==
    LET neg  == str # <<>> /\ Head(str) = "-"
        rest == IF neg THEN Tail(str) ELSE str
    IN  IF rest = <<>> \/ Head(rest) \notin Digits
        THEN [nan |-> TRUE, val |-> 0]
        ELSE [nan |-> FALSE,
              val |-> IF neg THEN 0 - DigitsPrefix(rest, 0) ELSE DigitsPrefix(rest, 0)]

\* parseInt(url.searchParams.get('z')) || 12
Zoom(z) ==
    IF parseInt(z).nan \/ parseInt(z).val = 0 THEN 12 ELSE parseInt(z).val

\* getH3Resolution with the first range closed one zoom level too late.
getH3ResolutionOffByOne(zoom) ==
    IF zoom >= 9 /\ zoom <= 13 THEN 7
    ELSE IF zoom >= 13 /\ zoom <= 15 THEN 9
    ELSE IF zoom >= 16 THEN 13
    ELSE 7

\* getH3Resolution (src/api/utils.js)
getH3Resolution(zoom) ==
    IF zoom >= 9 /\ zoom <= 12 THEN 7
    ELSE IF zoom >= 13 /\ zoom <= 15 THEN 9
    ELSE IF zoom >= 16 THEN 13
    ELSE 7

\* The query parameter bbox: <<>> when missing, else west,south,east,north.
Boxes == {<<>>, <<0, 0, 7, 7>>, <<2, 1, 2, 1>>, <<1, 2, 1, 2>>, <<3, 1, 3, 1>>,
          <<1, 3, 1, 3>>, <<4, 4, 7, 7>>, <<7, 7, 0, 0>>}

\* LIMIT n without ORDER BY: any n of the selected rows.  The limits of the
\* queries (20000 and 5000) are scaled down to the size of the model.
HeatLimit == 2
PointsLimit == 2

Limit(rows, n) ==
    IF Cardinality(rows) <= n THEN {rows}
    ELSE {some \in SUBSET rows : Cardinality(some) = n}

NoGet == [kind |-> "none", status |-> 0, z |-> <<>>, zoom |-> 0, resolution |-> 0,
          bbox |-> <<>>, items |-> {}, pgItems |-> {}, headers |-> {}]

JsonHeaders == {<<"Content-Type", "application/json">>}

\* InViewport with latitude and longitude taken for each other.
InViewportSwapped(h3, bbox) ==
    /\ cellToLatLng(h3).lat >= bbox[1] /\ cellToLatLng(h3).lat <= bbox[3]
    /\ cellToLatLng(h3).lng >= bbox[2] /\ cellToLatLng(h3).lng <= bbox[4]

\* The filter of GET /heat on the centre of a cell.
InViewport(h3, bbox) ==
    /\ cellToLatLng(h3).lng >= bbox[1] /\ cellToLatLng(h3).lng <= bbox[3]
    /\ cellToLatLng(h3).lat >= bbox[2] /\ cellToLatLng(h3).lat <= bbox[4]

HeatItem(heat, h3) ==
    [lat |-> cellToLatLng(h3).lat, lng |-> cellToLatLng(h3).lng,
     avg |-> Avg(heat[h3]), h3 |-> h3]

GetHeat(z, bbox) ==
    /\ getResp.kind = "none"
    /\ LET zoom       == Zoom(z)
            resolution == getH3Resolution(zoom)
            heat       == IF resolution = 7 THEN heat_r7 ELSE heat_r9
            got        == [NoGet EXCEPT !.kind = "heat", !.z = z, !.zoom = zoom,
                                        !.bbox = bbox, !.headers = JsonHeaders]
       IN  IF bbox = <<>>
           THEN getResp' = corsResponse([got EXCEPT !.status = 400])
           ELSE IF resolution \notin {7, 9}
           THEN \* no table heat_r13: the query throws into the catch block
                getResp' = corsResponse([got EXCEPT !.status = 500,
                                                    !.resolution = resolution])
           ELSE \E results \in Limit({h3 \in DOMAIN heat : Avg(heat[h3]) # 0}, HeatLimit) :
                getResp' = corsResponse(
                              [got EXCEPT !.status = 200, !.resolution = resolution,
                                  !.items = {HeatItem(heat, h3) :
                                                h3 \in {h \in results : InViewport(h, bbox)}}])
    /\ UNCHANGED <<dbVars, postVars, otherVars>>

\* The columns GET /points selects.
ViewColumns(row) ==
    [id |-> row.id, place_id |-> row.place_id, lat |-> row.lat, lng |-> row.lng,
     beauty |-> row.beauty, description |-> row.description,
     address |-> row.address, h3_r13 |-> row.h3_r13, image_url |-> row.image_url]

\* D1Where with the first two binds taken for lng and the last two for lat.
D1WhereSwapped(row, binds) ==
    /\ row.lng >= binds[1] /\ row.lng <= binds[2]
    /\ row.lat >= binds[3] /\ row.lat <= binds[4]

\* D1: WHERE lat BETWEEN ? AND ? AND lng BETWEEN ? AND ?
D1Where(row, binds) ==
    /\ row.lat >= binds[1] /\ row.lat <= binds[2]
    /\ row.lng >= binds[3] /\ row.lng <= binds[4]

\* Postgres (src/api/worker.js): WHERE lat BETWEEN $2 AND $4 AND lng BETWEEN $1 AND $3
PgWhere(row, params) ==
    /\ row.lat >= params[2] /\ row.lat <= params[4]
    /\ row.lng >= params[1] /\ row.lng <= params[3]

Rows == {points[i] : i \in 1..Len(points)}

\* GET /points of the D1 worker; pgItems is what the handler of the Postgres
\* worker selects from the same rows for the same request.
GetPoints(bbox) ==
    /\ getResp.kind = "none"
    /\ LET got == [NoGet EXCEPT !.kind = "points", !.bbox = bbox,
                                 !.headers = JsonHeaders]
       IN  IF bbox = <<>>
           THEN getResp' = corsResponse([got EXCEPT !.status = 400])
           ELSE LET west == bbox[1]  south == bbox[2]
                    east == bbox[3]  north == bbox[4]
                    d1 == {row \in Rows : D1Where(row, <<south, north, west, east>>)}
                    pg == {row \in Rows : PgWhere(row, <<west, south, east, north>>)}
                IN  \E results \in Limit(d1, PointsLimit), rows \in Limit(pg, PointsLimit) :
                       getResp' = corsResponse(
                                     [got EXCEPT !.status = 200,
                                         !.items = {ViewColumns(row) : row \in results},
                                         !.pgItems = {ViewColumns(row) : row \in rows}])
    /\ UNCHANGED <<dbVars, postVars, otherVars>>

\* GET /maps-script: the URL of the Google Maps script, key included.
GetMapsScript ==
    /\ getResp.kind = "none"
    /\ getResp' = corsResponse([NoGet EXCEPT !.kind = "maps-script", !.status = 200,
                                             !.items = {[scriptUrl |-> scriptUrl]},
                                             !.headers = JsonHeaders])
    /\ UNCHANGED <<dbVars, postVars, otherVars>>

\* The CORS preflight: any OPTIONS request is answered before routing.
Options ==
    /\ getResp.kind = "none"
    /\ getResp' = corsResponse([NoGet EXCEPT !.kind = "options", !.status = 204])
    /\ UNCHANGED <<dbVars, postVars, otherVars>>

\* A method and path that no route matches: 'Not found'.
NotFound ==
    /\ getResp.kind = "none"
    /\ getResp' = corsResponse([NoGet EXCEPT !.kind = "notfound", !.status = 404])
    /\ UNCHANGED <<dbVars, postVars, otherVars>>

\* The response of the GET request was sent.
ReturnGet ==
    /\ getResp.kind # "none"
    /\ getResp' = NoGet
    /\ UNCHANGED <<dbVars, postVars, otherVars>>

\* The response was sent; the next request of this client starts afresh.
Reset(r) ==
    /\ pc[r] = "done"
    /\ pc' = [pc EXCEPT ![r] = "idle"]
    /\ body' = [body EXCEPT ![r] = NoBody]
    /\ geoResult' = [geoResult EXCEPT ![r] = NoGeo]
    /\ finalImageUrl' = [finalImageUrl EXCEPT ![r] = ""]
    /\ aiResult' = [aiResult EXCEPT ![r] = NoAi]
    /\ calls' = [calls EXCEPT ![r] = <<>>]
    /\ insertId' = [insertId EXCEPT ![r] = 0]
    /\ response' = [response EXCEPT ![r] = NoResponse]
    /\ UNCHANGED <<dbVars, getResp, otherVars>>

(***************************************************************************)
(* The frontend (src/unnamed/part_002): the fields of the BeautyHeatmap    *)
(* object that decide what is requested and what is marked visible.  A     *)
(* null resolution is 0; heatData and pointData are the sets of cells and  *)
(* of point ids the API answered.                                          *)
(***************************************************************************)
HEATMAP_ZOOM_THRESHOLD == 16
TEXT_ZOOM_THRESHOLD == 18
R7_MIN_ZOOM == 9
R7_MAX_ZOOM == 12
R9_MIN_ZOOM == 13
R9_MAX_ZOOM == 15
INITIAL_ZOOM == 12

\* The zoom levels of the map.
MaxZoom == 18
MapZooms == 0..MaxZoom

\* BeautyHeatmap.getH3Resolution
BeautyHeatmap_getH3Resolution(zoom) ==
    IF zoom < R7_MIN_ZOOM THEN 0
    ELSE IF zoom >= R7_MIN_ZOOM /\ zoom <= R7_MAX_ZOOM THEN 7
    ELSE IF zoom >= R9_MIN_ZOOM /\ zoom <= R9_MAX_ZOOM THEN 9
    ELSE 0

\* BeautyHeatmap.calculateVisibility on the object obj.
calculateVisibility(obj, zoom, resolution) ==
    LET showHexagons == /\ zoom < HEATMAP_ZOOM_THRESHOLD /\ obj.showHeatmap
                        /\ obj.heatData # {} /\ resolution # 0
        showPoints   == /\ zoom >= HEATMAP_ZOOM_THRESHOLD /\ obj.showPoints
                        /\ obj.pointData # {}
    IN  [showHexagons  |-> showHexagons,
         showPoints    |-> showPoints,
         showText      |-> showPoints /\ zoom >= TEXT_ZOOM_THRESHOLD,
         showLargeHex  |-> showHexagons /\ resolution = 7,
         showMediumHex |-> showHexagons /\ resolution = 9,
         showSmallHex  |-> FALSE]

NoVisibility ==
    [showHexagons |-> FALSE, showPoints |-> FALSE, showText |-> FALSE,
     showLargeHex |-> FALSE, showMediumHex |-> FALSE, showSmallHex |-> FALSE]

FADE_DURATION == 800
DEBOUNCE_DELAY == 150

\* Timestamps are kept as ages, now - timestamp, in ms, capped at
\* FADE_DURATION; NoAge is a property the element does not have.
NoAge == -1

Aged(age, dt) == IF age = NoAge THEN NoAge ELSE Min(age + dt, FADE_DURATION)

\* An element of hexDataByResolution[res]: the cell with _spawnTime and
\* _fadeOutTime.
Hexagon(h3, spawnAge) == [h3 |-> h3, spawnAge |-> spawnAge, fadeOutAge |-> NoAge]

\* An element of pointData as /points answers it: no timestamps yet.
Point(id) ==
    [id |-> id, spawnAge |-> NoAge, fadeOutAge |-> NoAge,
     textSpawnAge |-> NoAge, textFadeOutAge |-> NoAge]

NoFetch == [kind |-> "none", zoom |-> 0, fallback |-> FALSE, newest |-> FALSE]

\* The object after the constructor; zoomInfo is the zoom updateZoomInfo
\* last displayed (-1: none yet).  inflight are the fetches of refreshData
\* that have not settled, oldest first; timers the pending setTimeout
\* callbacks <<id, elapsed ms>> and frames the ids of the pending
\* requestAnimationFrame callbacks; starting is whether an
\* updateVisualization with shouldAnimate waits at its await.  newest marks
\* the request of the latest refreshData, newestStored that its answer was
\* stored; idles counts the idle events and burstRefreshes the refreshData
\* calls of timers since the last one.
NoApp ==
    [zoom |-> INITIAL_ZOOM, showHeatmap |-> TRUE, showPoints |-> TRUE,
     heatData |-> {}, pointData |-> {}, inflight |-> <<>>,
     lastVisibility |-> NoVisibility, zoomInfo |-> -1,
     hexDataByResolution |-> [res \in {7, 9} |-> {}], lastResolution |-> 0,
     existingPointData |-> {}, fadeAnimationId |-> 0, frames |-> {},
     starting |-> FALSE, refreshTimeout |-> 0, timers |-> {},
     newestStored |-> FALSE, idles |-> 0, burstRefreshes |-> 0]

\* The functions below return the object they leave; what they return in
\* the code, shouldAnimate, is accumulated in the field starting.

\* handleHexagonFadeOut: hexagons of a resolution that is not shown start to
\* fade out.
handleHexagonFadeOut(obj, visibility) ==
    LET shouldShow(res) == \/ res = 7 /\ visibility.showLargeHex
                           \/ res = 9 /\ visibility.showMediumHex
        fades(res, hex) == ~shouldShow(res) /\ hex.fadeOutAge = NoAge
    IN  [obj EXCEPT
           !.hexDataByResolution =
              [res \in {7, 9} |->
                  {IF fades(res, hex) THEN [hex EXCEPT !.fadeOutAge = 0] ELSE hex :
                      hex \in obj.hexDataByResolution[res]}],
           !.starting = @ \/ \E res \in {7, 9} :
                                \E hex \in obj.hexDataByResolution[res] : fades(res, hex)]

\* fadeOutOtherResolutions
fadeOutOtherResolutions(obj, currentResolution) ==
    LET fades(res, hex) == res # currentResolution /\ hex.fadeOutAge = NoAge
    IN  [obj EXCEPT
           !.hexDataByResolution =
              [res \in {7, 9} |->
                  {IF fades(res, hex) THEN [hex EXCEPT !.fadeOutAge = 0] ELSE hex :
                      hex \in obj.hexDataByResolution[res]}],
           !.starting = @ \/ \E res \in {7, 9} :
                                \E hex \in obj.hexDataByResolution[res] : fades(res, hex)]

\* updateCurrentResolutionData: hexDataByResolution[resolution] becomes
\* heatData, each cell with the spawn time of the existing hexagon of that
\* cell, or else spawning now.
updateCurrentResolutionData(obj, resolution) ==
    LET existingHexagons == obj.hexDataByResolution[resolution]
        existingHexagonIds == {h.h3 : h \in existingHexagons}
        dataWithTimestamps ==
            {IF h3 \in existingHexagonIds
             THEN Hexagon(h3, (CHOOSE h \in existingHexagons : h.h3 = h3).spawnAge)
             ELSE Hexagon(h3, 0) : h3 \in obj.heatData}
    IN  [(IF resolution # obj.lastResolution
          THEN fadeOutOtherResolutions(obj, resolution) ELSE obj) EXCEPT
            !.lastResolution = resolution,
            !.hexDataByResolution[resolution] = dataWithTimestamps,
            !.starting = @ \/ \E h3 \in obj.heatData : h3 \notin existingHexagonIds]

\* updatePointData: fade-out of hidden points, text transitions at
\* TEXT_ZOOM_THRESHOLD, fade-in of new points; stores lastVisibility.
updatePointData(obj, visibility) ==
    LET hides == obj.pointData # {} /\ ~visibility.showPoints
        shows == obj.pointData # {} /\ visibility.showPoints
        wasShowingText == obj.lastVisibility.showText
        textIn  == shows /\ visibility.showText /\ ~wasShowingText
        textOut == shows /\ ~visibility.showText /\ wasShowingText
        wasShowingHexagons == obj.lastVisibility.showLargeHex
                              \/ obj.lastVisibility.showMediumHex
        isTransitionFromHexagons ==
            wasShowingHexagons /\ ~visibility.showLargeHex /\ ~visibility.showMediumHex
        existing == IF hides \/ (shows /\ isTransitionFromHexagons) THEN {}
                    ELSE obj.existingPointData
        isNew(point) == \A p \in existing : p.id # point.id
        hasSpawned(point) == \E p \in existing : p.id = point.id /\ p.spawnAge # NoAge
        hidden(point) ==
            IF hides /\ point.fadeOutAge = NoAge
            THEN [point EXCEPT !.fadeOutAge = 0] ELSE point
        texted(point) ==
            IF textIn THEN [point EXCEPT !.textSpawnAge = 0]
            ELSE IF textOut THEN [point EXCEPT !.textFadeOutAge = 0]
            ELSE point
        spawned(point) ==
            IF ~shows THEN point
            ELSE IF hasSpawned(point)
            THEN [point EXCEPT !.spawnAge =
                    (CHOOSE p \in existing : p.id = point.id /\ p.spawnAge # NoAge).spawnAge]
            ELSE IF isNew(point) THEN [point EXCEPT !.spawnAge = 0]
            ELSE point
        data == {spawned(texted(hidden(point))) : point \in obj.pointData}
    IN  [obj EXCEPT
           !.pointData = data,
           !.existingPointData =
              IF shows THEN {[id |-> p.id, spawnAge |-> p.spawnAge] : p \in data}
              ELSE existing,
           !.lastVisibility = visibility,
           !.starting = \/ @
                        \/ hides /\ \E point \in obj.pointData : point.fadeOutAge = NoAge
                        \/ textIn \/ textOut
                        \/ shows /\ \E point \in obj.pointData :
                              ~hasSpawned(point) /\ isNew(point)]

\* updateHexagonData: the three steps one after the other.
updateHexagonData(obj, resolution, visibility) ==
    CHOOSE updated \in
        {updatePointData(current, visibility) :
            current \in
                {IF resolution # 0 /\ faded.heatData # {} /\ faded.fadeAnimationId = 0
                 THEN updateCurrentResolutionData(faded, resolution)
                 ELSE faded :
                    faded \in {handleHexagonFadeOut(obj, visibility)}}} : TRUE

\* updateVisualization up to its await: the visibility of the layers at the
\* map's zoom and the data of the layers; with shouldAnimate the rest of the
\* function will start the fade animation.
updateVisualization(obj) ==
    CHOOSE updated \in
        {LET zoom == this.zoom
             resolution == BeautyHeatmap_getH3Resolution(zoom)
             visibility == calculateVisibility(this, zoom, resolution)
         IN  [updateHexagonData(this, resolution, visibility) EXCEPT !.zoomInfo = zoom] :
            this \in {obj}} : TRUE

\* An id that requestAnimationFrame has not handed out to a pending callback.
NewFrame(frames) ==
    CHOOSE id \in 1..(Cardinality(frames) + 1) :
        id \notin frames /\ \A other \in 1..(id - 1) : other \in frames

\* requestAnimationFrame(animate): fadeAnimationId is the id of the new
\* pending callback.
requestAnimationFrame(obj) ==
    CHOOSE requested \in
        {[this EXCEPT !.fadeAnimationId = NewFrame(this.frames),
                      !.frames = @ \cup {NewFrame(@)}] : this \in {obj}} : TRUE

\* startFadeAnimation: cancels the frame of fadeAnimationId and requests one.
startFadeAnimation(obj) ==
    requestAnimationFrame([obj EXCEPT !.frames = @ \ {obj.fadeAnimationId}])

\* What GET /heat?z=zoom can answer: cells of the resolution the worker
\* serves for that zoom.
HeatAnswers(zoom) == {{}, {<<getH3Resolution(zoom), 0, 0>>}}

\* What GET /points can answer.
PointAnswers == {{}, {1}}

\* The user zooms the map.
ZoomTo(zoom) ==
    /\ zoom # app.zoom
    /\ app' = [app EXCEPT !.zoom = zoom]
    /\ UNCHANGED <<dbVars, postVars, getResp, aiCall, client>>

\* refreshData on the object obj up to its fetch; bounds is whether
\* map.getBounds() has a value.  Below R7_MIN_ZOOM nothing is requested.
refreshData(obj, bounds) ==
    LET zoom == obj.zoom
        resolution == BeautyHeatmap_getH3Resolution(zoom)
        older == [i \in 1..Len(obj.inflight) |->
                    [obj.inflight[i] EXCEPT !.newest = FALSE]]
        request(kind, fallback) ==
            [obj EXCEPT !.inflight = Append(older, [kind |-> kind, zoom |-> zoom,
                                                     fallback |-> fallback,
                                                     newest |-> TRUE]),
                        !.newestStored = FALSE]
    IN  IF ~bounds
        THEN request(IF zoom >= HEATMAP_ZOOM_THRESHOLD THEN "points" ELSE "heat", TRUE)
        ELSE IF zoom < HEATMAP_ZOOM_THRESHOLD
        THEN IF resolution # 0
             THEN request("heat", FALSE)
             ELSE updateVisualization([obj EXCEPT !.heatData = {}, !.inflight = older,
                                                  !.newestStored = TRUE])
        ELSE request("points", FALSE)

\* refreshData called directly: by init and by addPoint.
RefreshData(bounds) ==
    /\ app' = refreshData(app, bounds)
    /\ UNCHANGED <<dbVars, postVars, getResp, aiCall, client>>

\* A fetch of refreshData settles, in any order: the answer is stored when
\* response.ok, and updateVisualization runs unless the fetch threw.
FetchReturns(outcome) ==
    /\ \E i \in 1..Len(app.inflight), ids \in PointAnswers :
       \E cells \in HeatAnswers(app.inflight[i].zoom) :
          LET fetch == app.inflight[i]
              idle == [app EXCEPT
                         !.inflight = SubSeq(@, 1, i - 1) \o SubSeq(@, i + 1, Len(@)),
                         !.newestStored = @ \/ (fetch.newest /\ outcome = "ok")]
              got  == IF fetch.kind = "heat"
                      THEN [idle EXCEPT
                              !.heatData = IF outcome = "ok" THEN cells ELSE @,
                              !.pointData = IF fetch.fallback THEN {} ELSE @]
                      ELSE [idle EXCEPT
                              !.pointData = IF outcome = "ok"
                                            THEN {Point(id) : id \in ids} ELSE @,
                              !.heatData = IF fetch.fallback THEN {} ELSE @]
          IN  app' = IF outcome = "throw" THEN idle ELSE updateVisualization(got)
    /\ UNCHANGED <<dbVars, postVars, getResp, aiCall, client>>

\* updateVisualization after its await: starts the fade animation unless one
\* is running.
StartAnimation ==
    /\ app.starting
    /\ app' = IF app.fadeAnimationId = 0
              THEN startFadeAnimation([app EXCEPT !.starting = FALSE])
              ELSE [app EXCEPT !.starting = FALSE]
    /\ UNCHANGED <<dbVars, postVars, getResp, aiCall, client>>

\* A filter that keeps a hexagon whose fade-out is complete.
KeepsHexagonFaded(hex) ==
    \/ hex.spawnAge # NoAge /\ hex.spawnAge < FADE_DURATION
    \/ hex.fadeOutAge = NoAge
    \/ hex.fadeOutAge <= FADE_DURATION

\* What the filters of animate keep.
KeepsHexagon(hex) ==
    \/ hex.spawnAge # NoAge /\ hex.spawnAge < FADE_DURATION
    \/ hex.fadeOutAge = NoAge
    \/ hex.fadeOutAge < FADE_DURATION

KeepsPoint(point) == point.fadeOutAge = NoAge \/ point.fadeOutAge < FADE_DURATION

Fading(age) == age # NoAge /\ age < FADE_DURATION

\* animate, the frame callback of startFadeAnimation: removes the elements
\* whose fade-out is complete and requests the next frame while an element
\* is fading in or out.
animate(obj, id) ==
    LET stillAnimating ==
            \/ \E res \in {7, 9} : \E hex \in obj.hexDataByResolution[res] :
                  Fading(hex.spawnAge) \/ Fading(hex.fadeOutAge)
            \/ \E point \in obj.pointData :
                  \/ Fading(point.spawnAge) \/ Fading(point.textSpawnAge)
                  \/ Fading(point.fadeOutAge)
                  \/ Fading(point.textFadeOutAge) /\ KeepsPoint(point)
        filtered ==
            [obj EXCEPT
               !.frames = @ \ {id},
               !.hexDataByResolution =
                  [res \in {7, 9} |-> {hex \in @[res] : KeepsHexagon(hex)}],
               !.pointData =
                  {IF point.textFadeOutAge # NoAge /\ point.textFadeOutAge >= FADE_DURATION
                   THEN [point EXCEPT !.textFadeOutAge = NoAge] ELSE point :
                      point \in {p \in @ : KeepsPoint(p)}}]
    IN  IF stillAnimating
        THEN requestAnimationFrame(updateVisualization(filtered))
        ELSE [filtered EXCEPT !.fadeAnimationId = 0]

\* The browser runs a pending frame callback.
Frame ==
    /\ \E id \in app.frames : app' = animate(app, id)
    /\ UNCHANGED <<dbVars, postVars, getResp, aiCall, client>>

\* The bound on the idle events of one run.
MaxIdles == 3

\* debouncedRefreshData without clearTimeout.
debouncedRefreshDataNoClear(obj) ==
    [obj EXCEPT !.timers = @ \cup {<<obj.idles + 1, 0>>},
                !.refreshTimeout = obj.idles + 1,
                !.idles = @ + 1, !.burstRefreshes = 0]

\* debouncedRefreshData: clears the pending timer and sets a new one.
debouncedRefreshData(obj) ==
    [obj EXCEPT !.timers = {t \in @ : t[1] # obj.refreshTimeout}
                           \cup {<<obj.idles + 1, 0>>},
                !.refreshTimeout = obj.idles + 1,
                !.idles = @ + 1, !.burstRefreshes = 0]

\* The map fires idle.
Idle ==
    /\ app.idles < MaxIdles
    /\ app' = debouncedRefreshData(app)
    /\ UNCHANGED <<dbVars, postVars, getResp, aiCall, client>>

\* The callback of a timer whose delay has passed: refreshData, then
\* refreshTimeout = null.
TimerFires(bounds) ==
    /\ \E t \in app.timers :
          /\ t[2] >= DEBOUNCE_DELAY
          /\ app' = [refreshData([app EXCEPT !.timers = @ \ {t}], bounds) EXCEPT
                        !.refreshTimeout = 0, !.burstRefreshes = @ + 1]
    /\ UNCHANGED <<dbVars, postVars, getResp, aiCall, client>>

\* dt ms pass.
Tick(dt) ==
    /\ app' = [app EXCEPT
                 !.timers = {<<t[1], Min(t[2] + dt, DEBOUNCE_DELAY)>> : t \in @},
                 !.hexDataByResolution =
                    [res \in {7, 9} |->
                        {[hex EXCEPT !.spawnAge = Aged(@, dt),
                                     !.fadeOutAge = Aged(@, dt)] : hex \in @[res]}],
                 !.pointData =
                    {[point EXCEPT !.spawnAge = Aged(@, dt),
                                   !.fadeOutAge = Aged(@, dt),
                                   !.textSpawnAge = Aged(@, dt),
                                   !.textFadeOutAge = Aged(@, dt)] : point \in @},
                 !.existingPointData =
                    {[p EXCEPT !.spawnAge = Aged(@, dt)] : p \in @}]
    /\ UNCHANGED <<dbVars, postVars, getResp, aiCall, client>>

(***************************************************************************)
(* The Postgres worker (src/api/worker.js): one request and its Client.    *)
(* The tables of the Neon database are not part of this model: a query     *)
(* answers with rows, with no rows, or throws, and so do the calls of the  *)
(* external services.  opened records that client.connect() resolved, open *)
(* that the connection is open now, ends the number of client.end() calls. *)
(***************************************************************************)
PgPaths == {"/point", "/heat", "/points", "/maps-script", "/stats", "/other"}

PgRequests ==
    {[method |-> "POST", path |-> "/point", address |-> a, imageUrl |-> i,
      precomputed |-> p, bbox |-> FALSE] :
        a \in {"", "a", "zz"}, i \in {"", "http://img"}, p \in BOOLEAN}
    \cup {[method |-> m, path |-> path, address |-> "", imageUrl |-> "",
           precomputed |-> FALSE, bbox |-> b] :
            m \in {"GET", "OPTIONS"}, path \in PgPaths, b \in BOOLEAN}

NoPg == [pc |-> "idle", request |-> CHOOSE req \in PgRequests : TRUE,
         opened |-> FALSE, open |-> FALSE, ends |-> 0, status |-> 0]

\* return corsResponse(new Response(..., { status })).
PgReturn(status) == client' = [client EXCEPT !.pc = "done", !.status = status]

\* The catch block: a 500 response, without client.end().
PgCatch == PgReturn(500)

\* fetch(request, env): the preflight answer, else new Client(...).
PgReceive(req) ==
    /\ client.pc = "idle"
    /\ IF req.method = "OPTIONS"
       THEN client' = [client EXCEPT !.request = req, !.pc = "done", !.status = 204]
       ELSE client' = [client EXCEPT !.request = req, !.pc = "connect"]
    /\ UNCHANGED <<dbVars, postVars, getResp, aiCall, app>>

\* await client.connect(), then the route up to its first await or return.
PgConnect(ok) ==
    /\ client.pc = "connect"
    /\ IF ~ok THEN PgCatch
       ELSE LET req == client.request
                c == [client EXCEPT !.opened = TRUE, !.open = TRUE]
            IN  CASE req.method = "POST" /\ req.path = "/point" ->
                       client' = [c EXCEPT !.pc = "json"]
                  [] req.method = "GET" /\ req.path \in {"/heat", "/points"} ->
                       IF req.bbox
                       THEN client' = [c EXCEPT !.pc = "query"]
                       ELSE client' = [c EXCEPT !.pc = "done", !.status = 400]
                  [] req.method = "GET" /\ req.path = "/maps-script" ->
                       client' = [c EXCEPT !.pc = "done", !.status = 200]
                  [] req.method = "GET" /\ req.path = "/stats" ->
                       client' = [c EXCEPT !.pc = "query"]
                  [] OTHER -> client' = [c EXCEPT !.pc = "end", !.status = 404]
    /\ UNCHANGED <<dbVars, postVars, getResp, aiCall, app>>

\* POST /point: await request.json() and the address check.
PgJson ==
    /\ client.pc = "json"
    /\ IF client.request.address = "" THEN PgReturn(400)
       ELSE client' = [client EXCEPT !.pc = "geocode"]
    /\ UNCHANGED <<dbVars, postVars, getResp, aiCall, app>>

\* POST /point: await geocodeAddress(address, env).
PgGeocode ==
    /\ client.pc = "geocode"
    /\ IF ~geocodeAddress(client.request.address).ok THEN PgReturn(400)
       ELSE client' = [client EXCEPT !.pc = "existing"]
    /\ UNCHANGED <<dbVars, postVars, getResp, aiCall, app>>

\* POST /point: await client.query(existingQuery); with a row the place is
\* returned, else the image source is determined.
PgExisting(outcome) ==
    /\ client.pc = "existing"
    /\ CASE outcome = "throw" -> PgCatch
         [] outcome = "rows" -> client' = [client EXCEPT !.pc = "end", !.status = 200]
         [] OTHER ->
              IF client.request.imageUrl # ""
              THEN client' = [client EXCEPT !.pc = "score"]
              ELSE client' = [client EXCEPT !.pc = "streetview"]
    /\ UNCHANGED <<dbVars, postVars, getResp, aiCall, app>>

\* POST /point: await getStreetViewImageUrl(lat, lng, env).
PgStreetView(url) ==
    /\ client.pc = "streetview"
    /\ IF url = "" THEN PgReturn(400)
       ELSE client' = [client EXCEPT !.pc = "score"]
    /\ UNCHANGED <<dbVars, postVars, getResp, aiCall, app>>

\* POST /point: the precomputed pair or await evaluateAesthetics(...).
PgScore(reply) ==
    /\ client.pc = "score"
    /\ IF client.request.precomputed \/ evaluateAesthetics(reply).beauty # 0
       THEN client' = [client EXCEPT !.pc = "insert"]
       ELSE PgReturn(500)
    /\ UNCHANGED <<dbVars, postVars, getResp, aiCall, app>>

\* POST /point: await client.query(insertQuery, ...).
PgInsert(outcome) ==
    /\ client.pc = "insert"
    /\ IF outcome = "throw" THEN PgCatch
       ELSE client' = [client EXCEPT !.pc = "end", !.status = 201]
    /\ UNCHANGED <<dbVars, postVars, getResp, aiCall, app>>

\* GET /heat, GET /points, GET /stats: await client.query(query).
PgQuery(outcome) ==
    /\ client.pc = "query"
    /\ IF outcome = "throw" THEN PgCatch
       ELSE client' = [client EXCEPT !.pc = "end", !.status = 200]
    /\ UNCHANGED <<dbVars, postVars, getResp, aiCall, app>>

\* await client.end() and the return that follows it.
PgEnd ==
    /\ client.pc = "end"
    /\ client' = [client EXCEPT !.pc = "done", !.open = FALSE, !.ends = client.ends + 1]
    /\ UNCHANGED <<dbVars, postVars, getResp, aiCall, app>>

InitServer ==
    /\ points = <<>>
    /\ heat_r7 = <<>>
    /\ heat_r9 = <<>>
    /\ pc = [r \in Reqs |-> "idle"]
    /\ body = [r \in Reqs |-> NoBody]
    /\ geoResult = [r \in Reqs |-> NoGeo]
    /\ finalImageUrl = [r \in Reqs |-> ""]
    /\ aiResult = [r \in Reqs |-> NoAi]
    /\ calls = [r \in Reqs |-> <<>>]
    /\ insertId = [r \in Reqs |-> 0]
    /\ response = [r \in Reqs |-> NoResponse]
    /\ getResp = NoGet
    /\ client = NoPg

Init ==
    /\ InitServer
    /\ aiCall = NoAiCall
    /\ app = NoApp

Next ==
    \E r \in Reqs :
        \/ \E b \in Bodies : Receive(r, b)
        \/ ExistsCheck(r)
        \/ ImageStep(r)
        \/ ScoreStep(r)
        \/ InsertPoint(r)
        \/ UpsertHeatR7(r)
        \/ UpsertHeatR9(r)
        \/ SelectNew(r)

Spec == Init /\ [][Next]_vars

\* The read endpoints, served while one client posts points one after another.
ZSome == {ZNull, <<"9">>, <<"1", "2">>, <<"1", "3">>, <<"1", "6">>}

PostOf(address, beauty) ==
    [address |-> address, imageUrl |-> "http://img", imageData |-> "",
     precomputedBeauty |-> beauty, precomputedReview |-> "pre"]

\* A body without image and one without precomputed values: Street View and
\* the AI are asked.
PostBare(address, imageUrl) ==
    [address |-> address, imageUrl |-> imageUrl, imageData |-> "",
     precomputedBeauty |-> 0, precomputedReview |-> ""]

GetBodies == {PostOf("a", 5), PostOf("b", 8), PostOf("c", 5), PostOf("c", 11),
              PostOf("zz", 5), PostOf("", 5), PostBare("b", ""),
              PostBare("a", "http://img")}

NextGet ==
    \/ \E b \in GetBodies : Receive("r1", b)
    \/ ExistsCheck("r1")
    \/ ImageStep("r1")
    \/ ScoreStep("r1")
    \/ InsertPoint("r1")
    \/ UpsertHeatR7("r1")
    \/ UpsertHeatR9("r1")
    \/ SelectNew("r1")
    \/ Reset("r1")
    \/ \E z \in ZSome, bbox \in Boxes : GetHeat(z, bbox)
    \/ \E bbox \in Boxes : GetPoints(bbox)
    \/ GetMapsScript
    \/ Options
    \/ NotFound
    \/ ReturnGet

SpecGet == Init /\ [][NextGet]_vars

\* The zoom parameter of GET /heat over all short strings.
NextZoom ==
    \/ \E z \in ZParams : GetHeat(z, <<0, 0, 7, 7>>)
    \/ ReturnGet

SpecZoom == Init /\ [][NextZoom]_vars

\* evaluateAesthetics on every short reply text and on a failed call.
InitAi ==
    /\ InitServer
    /\ aiCall \in {[NoAiCall EXCEPT !.text = text] : text \in ReplyTexts}
                  \cup {[NoAiCall EXCEPT !.failed = TRUE]}
    /\ app = NoApp

NextAi == Evaluate

SpecAi == InitAi /\ [][NextAi]_vars

\* The frontend while the user zooms: one refreshData at a time, and the
\* zoom changes between them.
NextApp ==
    \/ \E zoom \in MapZooms : app.inflight = <<>> /\ ZoomTo(zoom)
    \/ \E bounds \in BOOLEAN : app.inflight = <<>> /\ RefreshData(bounds)
    \/ \E outcome \in {"ok", "error", "throw"} : FetchReturns(outcome)

SpecApp == Init /\ [][NextApp]_vars

\* debouncedRefreshData: the user zooms, the map fires idle, the timer
\* fires, time passes.
NextDebounce ==
    \/ \E zoom \in {R7_MAX_ZOOM, HEATMAP_ZOOM_THRESHOLD} : ZoomTo(zoom)
    \/ Idle
    \/ \E bounds \in BOOLEAN : TimerFires(bounds)
    \/ Tick(DEBOUNCE_DELAY \div 3)

SpecDebounce == Init /\ [][NextDebounce]_vars

\* Time passes, and the event loop runs the callback of a timer whose delay
\* has passed.
SpecDebounceFair ==
    /\ SpecDebounce
    /\ WF_vars(Tick(DEBOUNCE_DELAY \div 3))
    /\ WF_vars(\E bounds \in BOOLEAN : TimerFires(bounds))

\* Overlapping refreshData calls whose fetches settle in any order, at a
\* zoom of each kind: R7 hexagons, R9 hexagons, points.  A call made by the
\* timer of debouncedRefreshData differs from a direct one only in the timer.
MaxInFlight == 2

NextRace ==
    \/ \E zoom \in {R7_MAX_ZOOM, R9_MIN_ZOOM, HEATMAP_ZOOM_THRESHOLD} : ZoomTo(zoom)
    \/ Len(app.inflight) < MaxInFlight /\ RefreshData(TRUE)
    \/ \E outcome \in {"ok", "error"} : FetchReturns(outcome)

SpecRace == Init /\ [][NextRace]_vars

\* The fade animation: one refreshData at a time, the frames of the
\* animation loop and the passing of time.
NextFade ==
    \/ \E zoom \in {R7_MAX_ZOOM, R9_MIN_ZOOM, HEATMAP_ZOOM_THRESHOLD} : ZoomTo(zoom)
    \/ app.inflight = <<>> /\ RefreshData(TRUE)
    \/ \E outcome \in {"ok", "error"} : FetchReturns(outcome)
    \/ StartAnimation
    \/ Frame
    \/ Tick(FADE_DURATION)

SpecFade == Init /\ [][NextFade]_vars

\* The fade animation when the data stops arriving: every refreshData is the
\* call of a debounced idle event, and these are bounded.  Time passes, the
\* browser runs the pending frame and resumes updateVisualization.
NextFadeLoop ==
    \/ \E zoom \in {R9_MIN_ZOOM, HEATMAP_ZOOM_THRESHOLD} : ZoomTo(zoom)
    \/ Idle
    \/ app.inflight = <<>> /\ TimerFires(TRUE)
    \/ FetchReturns("ok")
    \/ StartAnimation
    \/ Frame
    \/ Tick(FADE_DURATION \div 2)

SpecFadeLoop ==
    /\ Init /\ [][NextFadeLoop]_vars
    /\ WF_vars(Tick(FADE_DURATION \div 2))
    /\ WF_vars(Frame)
    /\ WF_vars(StartAnimation)

\* One request to the Postgres worker.
NextPg ==
    \/ \E req \in PgRequests : PgReceive(req)
    \/ \E ok \in BOOLEAN : PgConnect(ok)
    \/ PgJson
    \/ PgGeocode
    \/ \E outcome \in {"rows", "none", "throw"} : PgExisting(outcome)
    \/ \E url \in StreetViewUrls : PgStreetView(url)
    \/ \E reply \in AIReplies : PgScore(reply)
    \/ \E outcome \in {"rows", "throw"} : PgInsert(outcome)
    \/ \E outcome \in {"rows", "throw"} : PgQuery(outcome)
    \/ PgEnd

SpecPg == Init /\ [][NextPg]_vars

(***************************************************************************)
(* Properties of POST /point in the D1 worker                              *)
(***************************************************************************)
Quiescent == \A r \in Reqs : pc[r] \in {"idle", "done"}

RowsR7(h) == {i \in 1..Len(points) : points[i].h3_r7 = h}
RowsR9(h) == {i \in 1..Len(points) : points[i].h3_r9 = h}

RECURSIVE SumBeauty(_)
SumBeauty(ids) ==
    IF ids = {} THEN 0
    ELSE LET i == CHOOSE j \in ids : TRUE
         IN  points[i].beauty + SumBeauty(ids \ {i})

HeatR7IsSumOfPoints ==
    /\ DOMAIN heat_r7 = {points[i].h3_r7 : i \in 1..Len(points)}
    /\ \A h \in DOMAIN heat_r7 :
          /\ heat_r7[h].cnt = Cardinality(RowsR7(h))
          /\ heat_r7[h].sum = SumBeauty(RowsR7(h))

HeatR9IsSumOfPoints ==
    /\ DOMAIN heat_r9 = {points[i].h3_r9 : i \in 1..Len(points)}
    /\ \A h \in DOMAIN heat_r9 :
          /\ heat_r9[h].cnt = Cardinality(RowsR9(h))
          /\ heat_r9[h].sum = SumBeauty(RowsR9(h))

C2_UniquePlaceId ==
    \A i, j \in 1..Len(points) :
        points[i].place_id = points[j].place_id => i = j

\* Two requests for one place both passed the existence check; one stored the
\* row and the other was refused by the database.
C2_Witness ==
    \E r1, r2 \in Reqs :
        /\ r1 # r2
        /\ geoResult[r1].place_id = geoResult[r2].place_id
        /\ insertId[r1] # 0
        /\ pc[r2] = "done" /\ response[r2].error = "Internal server error"

\* C3: the point row and its two heat increments are one transaction: no
\* committed database state holds a point row without both increments.
C3_AtomicInsert ==
    HeatR7IsSumOfPoints /\ HeatR9IsSumOfPoints

\* A request obtained a score from the AI.
Evaluated(r) ==
    /\ Len(calls[r]) > 0 /\ calls[r][Len(calls[r])] = "ai"
    /\ aiResult[r].beauty # 0

\* C4: at most one request per place_id obtains a successful AI evaluation.
C4_OneEvaluationPerPlace ==
    \A r1, r2 \in Reqs :
        Evaluated(r1) /\ Evaluated(r2)
        /\ geoResult[r1].place_id = geoResult[r2].place_id => r1 = r2

\* C5: a POST /point whose place_id is already stored answers at the existence
\* check with 200, the stored row and 'Location already exists in database',
\* having called neither Street View nor the AI, and changes no table.
C5_ExistingPlaceReturned ==
    [][\A r \in Reqs :
          pc[r] = "exists" /\ pc'[r] # "exists"
          /\ (\E i \in 1..Len(points) : points[i].place_id = geoResult[r].place_id)
          => /\ pc'[r] = "done"
             /\ response'[r].status = 200
             /\ response'[r].message = "Location already exists in database"
             /\ Len(response'[r].point) = 1
             /\ response'[r].point[1] \in {PointColumns(points[i]) : i \in 1..Len(points)}
             /\ response'[r].point[1].place_id = geoResult[r].place_id
             /\ calls'[r] = <<"geocode">>
             /\ UNCHANGED dbVars]_vars

C5_Witness ==
    \E r \in Reqs :
        /\ response[r].status = 200
        /\ body[r].imageUrl # ""
        /\ body[r].precomputedBeauty # 0 /\ body[r].precomputedReview # ""

\* C6: every stored beauty lies in [1, 10], a request with an out-of-range
\* precomputedBeauty stores nothing, and every avg lies in [1, 10].
C6_BeautyRange ==
    /\ \A i \in 1..Len(points) : points[i].beauty >= 1 /\ points[i].beauty <= 10
    /\ \A r \in Reqs :
          body[r].precomputedBeauty # 0 /\ body[r].precomputedReview # ""
          /\ (body[r].precomputedBeauty < 1 \/ body[r].precomputedBeauty > 10)
          => insertId[r] = 0 /\ response[r].status # 201
    /\ \A h \in DOMAIN heat_r7 :
          heat_r7[h].cnt > 0 => Avg(heat_r7[h]) >= 10 /\ Avg(heat_r7[h]) <= 100
    /\ \A h \in DOMAIN heat_r9 :
          heat_r9[h].cnt > 0 => Avg(heat_r9[h]) >= 10 /\ Avg(heat_r9[h]) <= 100

\* A clamped AI score is stored while a precomputed 11 was refused.
C6_Witness ==
    /\ \E i \in 1..Len(points) : points[i].beauty = 10
    /\ \E h \in DOMAIN heat_r9 : Avg(heat_r9[h]) = 100
    /\ \E r \in Reqs : /\ body[r].precomputedBeauty = 11
                       /\ response[r].error = "Internal server error"

\* heat2 is heat with b added to the row of cell h (created with (b, 1)) and
\* every other row as it was.
OneRowIncremented(heat, heat2, h, b) ==
    /\ DOMAIN heat2 = DOMAIN heat \cup {h}
    /\ \A c \in DOMAIN heat : c # h => heat2[c] = heat[c]
    /\ heat2[h] = IF h \in DOMAIN heat
                  THEN [sum |-> heat[h].sum + b, cnt |-> heat[h].cnt + 1]
                  ELSE [sum |-> b, cnt |-> 1]

\* C10: a successful insert appends one row to points and is followed by one
\* increment of the point's heat_r7 row and one of its heat_r9 row; each of
\* these steps leaves all other rows of the three tables unchanged.
C10_InsertUpdatesTwoAggregates ==
    [][\A r \in Reqs :
          /\ pc[r] = "insert" /\ pc'[r] = "heat_r7"
             => /\ Len(points') = Len(points) + 1
                /\ \A i \in 1..Len(points) : points'[i] = points[i]
                /\ UNCHANGED <<heat_r7, heat_r9>>
          /\ pc[r] = "heat_r7" /\ pc'[r] # "heat_r7"
             => /\ OneRowIncremented(heat_r7, heat_r7', points[insertId[r]].h3_r7,
                                     points[insertId[r]].beauty)
                /\ UNCHANGED <<points, heat_r9>>
          /\ pc[r] = "heat_r9" /\ pc'[r] # "heat_r9"
             => /\ OneRowIncremented(heat_r9, heat_r9', points[insertId[r]].h3_r9,
                                     points[insertId[r]].beauty)
                /\ UNCHANGED <<points, heat_r7>>
          /\ pc[r] = "select" /\ pc'[r] # "select"
             => /\ response'[r].status = 201
                /\ UNCHANGED dbVars]_vars

\* Two inserts are complete: the second added to an existing heat_r7 row and
\* created a new heat_r9 row.
C10_Witness ==
    /\ \A r \in Reqs : response[r].status = 201
    /\ \E h \in DOMAIN heat_r7 : heat_r7[h].cnt = 2
    /\ \E h \in DOMAIN heat_r9 : heat_r9[h].cnt = 1 /\ heat_r9[h].sum = 7

(***************************************************************************)
(* Properties of GET /heat and GET /points                                 *)
(***************************************************************************)
\* C7: every item GET /heat returns is a row of the heat table it selected,
\* with a non-null avg and that row's h3 and avg, placed at the centre of its
\* cell, and that centre lies within the bbox of the request.
C7_HeatViewportFiltered ==
    [][getResp.kind = "none" /\ getResp'.kind = "heat"
       => LET heat == IF getResp'.resolution = 7 THEN heat_r7 ELSE heat_r9
              bbox == getResp'.bbox
          IN  \A item \in getResp'.items :
                 /\ getResp'.resolution \in {7, 9}
                 /\ item.h3[1] = getResp'.resolution
                 /\ item.h3 \in DOMAIN heat
                 /\ heat[item.h3].cnt > 0
                 /\ item.avg = Avg(heat[item.h3])
                 /\ item.lat = cellToLatLng(item.h3).lat
                 /\ item.lng = cellToLatLng(item.h3).lng
                 /\ bbox[2] <= item.lat /\ item.lat <= bbox[4]
                 /\ bbox[1] <= item.lng /\ item.lng <= bbox[3]]_vars

\* One of two neighbourhood cells was returned, the other lies outside.
C7_Witness ==
    /\ getResp.kind = "heat" /\ getResp.status = 200
    /\ getResp.resolution = 9 /\ getResp.bbox = <<3, 1, 3, 1>>
    /\ Cardinality(getResp.items) = 1
    /\ \A item \in getResp.items : item.avg = 80
    /\ Cardinality(DOMAIN heat_r9) >= 2

InBox(item, bbox) ==
    /\ bbox[2] <= item.lat /\ item.lat <= bbox[4]
    /\ bbox[1] <= item.lng /\ item.lng <= bbox[3]

\* C8 as stated: GET /points returns rows of points within the bbox, at most
\* the limit, and the D1 and the Postgres worker return the same set of rows.
C8_SameRowsSelected ==
    getResp.kind = "points" /\ getResp.status = 200
    => /\ \A item \in getResp.items :
             /\ item \in {ViewColumns(row) : row \in Rows}
             /\ InBox(item, getResp.bbox)
       /\ Cardinality(getResp.items) <= PointsLimit
       /\ getResp.items = getResp.pgItems

\* C8 amended: both workers return rows of points within the bbox, and each
\* returns min(n, limit) of the n rows within the bbox; with n up to the limit
\* both therefore return exactly those n rows.
C8_SameRowsUpToLimit ==
    [][getResp.kind = "none" /\ getResp'.kind = "points" /\ getResp'.status = 200
       => LET matching == {item \in {ViewColumns(row) : row \in Rows} :
                              InBox(item, getResp'.bbox)}
              n == Min(Cardinality(matching), PointsLimit)
          IN  /\ getResp'.items \subseteq matching
              /\ getResp'.pgItems \subseteq matching
              /\ Cardinality(getResp'.items) = n
              /\ Cardinality(getResp'.pgItems) = n
              /\ Cardinality(matching) <= PointsLimit
                 => getResp'.items = matching /\ getResp'.pgItems = matching]_vars

\* Of several stored points exactly the one at the given coordinates is served.
C8_Witness ==
    /\ getResp.kind = "points" /\ getResp.status = 200
    /\ getResp.bbox = <<2, 1, 2, 1>>
    /\ Cardinality(getResp.items) = 1
    /\ getResp.items = getResp.pgItems
    /\ Len(points) >= 2

\* The number a string of digits denotes.
RECURSIVE Decimal(_)
Decimal(str) ==
    IF str = <<>> THEN 0
    ELSE 10 * Decimal(SubSeq(str, 1, Len(str) - 1)) + DigitVal(str[Len(str)])

AllDigits(str) == str # <<>> /\ \A i \in 1..Len(str) : str[i] \in Digits

\* z is missing or does not start with a number.
NonNumeric(z) ==
    \/ z = ZNull \/ z = <<>>
    \/ z[1] \notin Digits /\ ~(z[1] = "-" /\ Len(z) >= 2 /\ z[2] \in Digits)

NextStep ==
    [idle |-> "exists", exists |-> "image", image |-> "score", score |-> "insert",
     insert |-> "heat_r7", heat_r7 |-> "heat_r9", heat_r9 |-> "select",
     select |-> "done", done |-> "done"]

\* The external call a step makes, if it makes one.
CallOf == [idle |-> "geocode", image |-> "streetview", score |-> "ai"]

\* C11: a POST /point moves through geocode, existence check, image selection,
\* score (AI or precomputed), insert and the two heat increments in this order
\* or returns; each external call is made by its own step; the row is inserted
\* only by a request that was geocoded and holds a score, and a heat table
\* changes only by a request whose row is already stored.
C11_StepOrder ==
    [][/\ \A r \in Reqs :
            /\ pc'[r] # pc[r] => pc'[r] \in {NextStep[pc[r]], "done"}
            /\ calls'[r] # calls[r]
               => /\ pc[r] \in DOMAIN CallOf
                  /\ calls'[r] = Append(calls[r], CallOf[pc[r]])
            /\ pc'[r] \notin {"idle", "done"}
               => geoResult'[r].ok /\ calls'[r][1] = "geocode"
            /\ pc'[r] \in {"score", "insert", "heat_r7", "heat_r9", "select"}
               => finalImageUrl'[r] # ""
            /\ pc'[r] \in {"insert", "heat_r7", "heat_r9", "select"}
               => aiResult'[r].beauty # 0
            /\ insertId'[r] # insertId[r]
               => /\ pc[r] = "insert" /\ geoResult[r].ok /\ aiResult[r].beauty # 0
                  /\ points' = Append(points, NewRow(r))
       /\ points' # points => \E r \in Reqs : insertId'[r] # insertId[r]
       /\ heat_r7' # heat_r7
          => \E r \in Reqs : /\ pc[r] = "heat_r7" /\ insertId[r] \in 1..Len(points)
                              /\ points[insertId[r]].place_id = geoResult[r].place_id
       /\ heat_r9' # heat_r9
          => \E r \in Reqs : /\ pc[r] = "heat_r9" /\ insertId[r] \in 1..Len(points)
                              /\ points[insertId[r]].place_id = geoResult[r].place_id
                              /\ points[insertId[r]].h3_r7 \in DOMAIN heat_r7]_vars

\* A request went through every step: geocode, Street View, AI, insert, heat.
C11_Witness ==
    \E r \in Reqs :
        /\ calls[r] = <<"geocode", "streetview", "ai">>
        /\ response[r].status = 201
        /\ points[insertId[r]].h3_r9 \in DOMAIN heat_r9

\* The step of request r ends the request with the given error and leaves
\* the three tables as they are.
FailsWith(r, status, error) ==
    /\ pc'[r] = "done"
    /\ response'[r].status = status /\ response'[r].error = error
    /\ response'[r].point = <<>>
    /\ insertId'[r] = 0
    /\ UNCHANGED dbVars

\* C16: a POST /point without address, with an address that does not geocode,
\* without image and Street View imagery, or without a score from the AI ends
\* at that step with 400, 400, 400 and 500, changes no table, and takes no
\* further step: a returned request stays as it is.
C16_FailuresChangeNothing ==
    [][\A r \in Reqs :
          /\ pc[r] = "idle" /\ pc'[r] # "idle" /\ body'[r].address = ""
             => FailsWith(r, 400, "Address is required") /\ calls'[r] = <<>>
          /\ pc[r] = "idle" /\ pc'[r] # "idle" /\ body'[r].address # ""
             /\ ~geoResult'[r].ok
             => /\ FailsWith(r, 400, "Failed to geocode address")
                /\ calls'[r] = <<"geocode">>
          /\ pc[r] = "image" /\ pc'[r] # "image"
             /\ body[r].imageUrl = "" /\ body[r].imageData = ""
             /\ finalImageUrl'[r] = ""
             => /\ FailsWith(r, 400,
                             "No Street View imagery available for this address")
                /\ calls'[r] = <<"geocode", "streetview">>
          /\ pc[r] = "score" /\ pc'[r] # "score"
             /\ calls'[r] # calls[r] /\ aiResult'[r].beauty = 0
             => FailsWith(r, 500, "Failed to evaluate aesthetics")
          /\ pc[r] = "done"
             => /\ pc'[r] = "done" /\ response'[r] = response[r]
                /\ calls'[r] = calls[r] /\ insertId'[r] = insertId[r]]_vars

\* One request ended without Street View imagery and one without a score,
\* and no row is stored.
C16_Witness ==
    \E r1, r2 \in Reqs :
        /\ response[r1].error = "No Street View imagery available for this address"
        /\ response[r2].error = "Failed to evaluate aesthetics"
        /\ points = <<>> /\ heat_r7 = <<>> /\ heat_r9 = <<>>

\* Request r issued its INSERT, with a row that the NOT NULL and CHECK
\* constraints accept, and has returned.
InsertTried(r) ==
    /\ pc[r] = "done"
    /\ response[r].status = 201 \/ response[r].error = "Internal server error"
    /\ aiResult[r].beauty >= 1 /\ aiResult[r].beauty <= 10
    /\ aiResult[r].blurb # NullText

C18_BlurbWithBeauty ==
    \A r \in Reqs :
        Evaluated(r)
        => /\ aiResult[r].blurb # NullText
           /\ pc[r] = "done"
              /\ (\A i \in 1..Len(points) : points[i].place_id # geoResult[r].place_id)
              => response[r].status # 500

\* Request r took its score: it is at or past the INSERT, or it returned from
\* the score step or a later one.
ScoreTaken(r) ==
    \/ pc[r] \in {"insert", "heat_r7", "heat_r9", "select"}
    \/ /\ pc[r] = "done"
       /\ \/ response[r].status = 201
          \/ response[r].error \in {"Failed to evaluate aesthetics",
                                    "Internal server error"}

\* Both precomputed values of the body of r are truthy.
BothSupplied(r) ==
    body[r].precomputedBeauty # 0 /\ body[r].precomputedReview # ""

Called(r, service) == \E i \in 1..Len(calls[r]) : calls[r][i] = service

\* C21: the AI is called exactly by the requests that took their score
\* without both precomputed values; with both, the stored beauty and
\* description are the supplied values; and the image is selected first
\* either way: a request without image asked Street View before its score,
\* and returned 400 without a score when Street View had no imagery.
C21_AiIffNotPrecomputed ==
    \A r \in Reqs :
        /\ Called(r, "ai") <=> ScoreTaken(r) /\ ~BothSupplied(r)
        /\ BothSupplied(r) /\ insertId[r] # 0
           => /\ points[insertId[r]].beauty = body[r].precomputedBeauty
              /\ points[insertId[r]].description = body[r].precomputedReview
        /\ ScoreTaken(r)
           => /\ finalImageUrl[r] # ""
              /\ body[r].imageUrl = "" /\ body[r].imageData = ""
                 => calls[r][2] = "streetview"
        /\ Called(r, "streetview") /\ finalImageUrl[r] = ""
           => /\ pc[r] = "done" /\ response[r].status = 400
              /\ aiResult[r] = NoAi /\ insertId[r] = 0

\* A request with both precomputed values and no image asked Street View and
\* stored the supplied values without calling the AI.
C21_Witness ==
    \E r \in Reqs :
        /\ BothSupplied(r)
        /\ calls[r] = <<"geocode", "streetview">>
        /\ response[r].status = 201
        /\ points[insertId[r]].beauty = 5
        /\ points[insertId[r]].description = "pre"

(***************************************************************************)
(* Properties of evaluateAesthetics                                        *)
(***************************************************************************)
\* The least element of a non-empty set of positions.
First(positions) == CHOOSE i \in positions : \A j \in positions : i <= j

\* C12: the beauty of a reply that contains SCORE: n is n clamped to [1, 10];
\* without it the first number of the reply within [1, 10]; without such a
\* number, and for a failed call, null; a non-null beauty lies in [1, 10].
C12_ScoreParsing ==
    aiCall.done
    => LET text    == aiCall.text
           beauty  == aiCall.result.beauty
           scored  == {i \in 1..(Len(text) - 1) :
                          text[i].kind = "SCORE:" /\ text[i + 1].kind = "num"}
           inRange == {i \in 1..Len(text) :
                          /\ text[i].kind = "num"
                          /\ text[i].val >= 1 /\ text[i].val <= 10}
       IN  /\ aiCall.failed => beauty = 0
           /\ ~aiCall.failed /\ scored # {}
              => LET n == text[First(scored) + 1].val
                 IN  beauty = IF n < 1 THEN 1 ELSE IF n > 10 THEN 10 ELSE n
           /\ ~aiCall.failed /\ scored = {} /\ inRange # {}
              => beauty = text[First(inRange)].val
           /\ ~aiCall.failed /\ scored = {} /\ inRange = {} => beauty = 0
           /\ beauty # 0 => beauty >= 1 /\ beauty <= 10

\* A reply with SCORE: 11 was evaluated to 10.
C12_Witness ==
    /\ aiCall.done
    /\ Len(aiCall.text) = 3
    /\ aiCall.text[2].kind = "SCORE:" /\ aiCall.text[3] = [kind |-> "num", val |-> 11]
    /\ aiCall.result.beauty = 10

(***************************************************************************)
(* Properties of the responses of the worker                               *)
(***************************************************************************)
\* The texts of the body of a POST /point response.
PostBodyTexts(resp) ==
    {resp.error, resp.message}
    \cup UNION {{resp.point[i].image_url, resp.point[i].description,
                 resp.point[i].address, resp.point[i].place_id} :
                   i \in 1..Len(resp.point)}

\* The texts of the body of a GET response.
GetBodyTexts(resp) ==
    IF resp.kind = "maps-script" THEN {item.scriptUrl : item \in resp.items}
    ELSE IF resp.kind = "points"
    THEN UNION {{item.image_url, item.description, item.address, item.place_id} :
                   item \in resp.items}
    ELSE {}

\* C13: no response body of the worker contains GOOGLE_MAPS_API_KEY or
\* GEMINI_API_KEY.
C13_NoKeyInResponses ==
    \A text \in GetBodyTexts(getResp) \cup UNION {PostBodyTexts(response[r]) : r \in Reqs} :
        KeysIn(text) = {}

\* The three CORS headers with the values the worker announces.
HasCors(headers) ==
    /\ <<"Access-Control-Allow-Origin", "*">> \in headers
    /\ <<"Access-Control-Allow-Methods", "GET, POST, OPTIONS">> \in headers
    /\ <<"Access-Control-Allow-Headers", "Content-Type, Authorization">> \in headers

\* C14: every response of the worker, on every path (preflight 204, success,
\* 400, 500, 404), carries the three CORS headers.
C14_CorsOnEveryResponse ==
    /\ \A r \in Reqs : response[r].status # 0 => HasCors(response[r].headers)
    /\ getResp.kind # "none" => HasCors(getResp.headers)

\* A 'Not found' is being answered after a POST /point ended in a 500.
C14_Witness ==
    /\ getResp.kind = "notfound" /\ getResp.status = 404
    /\ response["r1"].status = 500
    /\ response["r1"].error = "Failed to evaluate aesthetics"

\* C19: GET /heat with a bbox answers 200 for every zoom z >= 0, with cells of
\* heat_r7 or heat_r9: no zoom selects a heat table that does not exist.
C19_HeatAnswersEveryZoom ==
    getResp.kind = "heat" /\ getResp.bbox # <<>> /\ getResp.zoom >= 0
    => getResp.status = 200 /\ getResp.resolution \in {7, 9}

\* C20: GET /heat returns every row of the selected heat table that has a
\* non-null avg and whose cell centre lies within the bbox, however many rows
\* the table holds.
C20_HeatComplete ==
    [][getResp.kind = "none" /\ getResp'.kind = "heat" /\ getResp'.status = 200
       => LET heat == IF getResp'.resolution = 7 THEN heat_r7 ELSE heat_r9
          IN  \A h3 \in DOMAIN heat :
                 /\ heat[h3].cnt > 0
                 /\ InBox(cellToLatLng(h3), getResp'.bbox)
                 => \E item \in getResp'.items :
                       item.h3 = h3 /\ item.avg = Avg(heat[h3])]_vars

(***************************************************************************)
(* Properties of the frontend                                              *)
(***************************************************************************)
\* What the layers show after an updateVisualization at zoom z, at the zoom
\* levels from 9 on.
ShownFromNine(obj) ==
    LET z == obj.zoomInfo
        v == obj.lastVisibility
    IN  /\ ~(v.showPoints /\ (v.showHexagons \/ v.showLargeHex \/ v.showMediumHex))
        /\ z >= 16 => /\ ~v.showHexagons /\ ~v.showLargeHex /\ ~v.showMediumHex
                      /\ obj.pointData # {} => v.showPoints
        /\ z >= 9 /\ z <= 15
           => /\ ~v.showPoints
              /\ obj.heatData # {} => v.showHexagons
              /\ v.showLargeHex <=> v.showHexagons /\ z <= 12
              /\ v.showMediumHex <=> v.showHexagons /\ z >= 13
        /\ z < 9 => ~v.showPoints

\* refreshData ran: a step of the idle object at an unchanged zoom.
Fetching(obj) ==
    IF obj.inflight = <<>> THEN NoFetch ELSE obj.inflight[Len(obj.inflight)]

Refreshed == app.inflight = <<>> /\ app'.zoom = app.zoom /\ app' # app

\* C15: at zoom 16 or more refreshData requests points and only points are
\* marked visible; at zoom 9 to 15 it requests hexagons and only hexagons are
\* visible, R7 at 9 to 12 and R9 at 13 to 15; below zoom 9 it requests
\* hexagons and shows them as R7 hexagons; points and hexagons are never both
\* marked visible.
C15_MultiScale ==
    [][/\ Refreshed
          => Fetching(app').kind = IF app.zoom >= 16 THEN "points" ELSE "heat"
       /\ ShownFromNine(app')
       /\ app'.zoomInfo >= 0 /\ app'.zoomInfo < 9 /\ app'.heatData # {}
          => app'.lastVisibility.showLargeHex]_vars

\* The part of C15 that the frontend keeps: the requests and the visibility
\* from zoom 9 on.
C15_FromNine ==
    [][/\ Refreshed /\ app.zoom >= 9
          => Fetching(app').kind = IF app.zoom >= 16 THEN "points" ELSE "heat"
       /\ ShownFromNine(app')]_vars

(***************************************************************************)
(* The connection of the Postgres worker                                   *)
(***************************************************************************)
\* C22: every request of the Postgres worker whose client.connect() resolved
\* has called client.end() exactly once, and so closed the connection, when
\* its response is returned.
C22_EndBeforeResponse ==
    (client.pc = "done" /\ client.opened) => (client.ends = 1 /\ ~client.open)

\* The paths that do close the connection: the responses that follow an
\* await client.end().
C22_ClosedPaths ==
    (client.pc = "done" /\ client.opened /\ client.status \in {201, 404}) =>
        (client.ends = 1 /\ ~client.open)

(***************************************************************************)
(* Properties of the timers and the animation of the frontend              *)
(***************************************************************************)
\* C23: debouncedRefreshData debounces the idle events: at most one refresh
\* timer is pending; an idle event leaves its own timer as the only one; a
\* timer calls refreshData only when it is the timer of the latest idle
\* event and DEBOUNCE_DELAY has passed since; and after every idle event
\* that no other follows refreshData is called, exactly once.
C23_Debounce ==
    /\ [](Cardinality(app.timers) <= 1 /\ app.burstRefreshes <= 1)
    /\ [][/\ app'.idles > app.idles => app'.timers = {<<app'.idles, 0>>}
          /\ app'.burstRefreshes > app.burstRefreshes
             => /\ <<app.idles, DEBOUNCE_DELAY>> \in app.timers
                /\ app'.timers = {}]_vars
    /\ \A k \in 1..MaxIdles :
          (app.idles = k) ~> (\/ app.idles > k
                              \/ app.burstRefreshes = 1 /\ app.refreshTimeout = 0)

\* A burst of two idle events or more was answered by one refreshData.
C23_Witness ==
    app.idles >= 2 /\ app.burstRefreshes = 1 /\ Len(app.inflight) = 1

\* The cells and the points the object holds.
Loaded(obj) == [cells |-> obj.heatData, ids |-> {point.id : point \in obj.pointData}]

\* C24: an older response never overwrites a newer one: once the answer of
\* the latest refreshData has been stored, the answer of a request issued
\* before it changes neither the cells of heatData nor the points of
\* pointData.
C24_NewestWins ==
    [][app.newestStored /\ Len(app'.inflight) < Len(app.inflight)
          => Loaded(app') = Loaded(app)]_vars

\* C25: every element of hexDataByResolution[7] is a cell of resolution 7
\* and every element of hexDataByResolution[9] a cell of resolution 9.
C25_CellsOfTheirResolution ==
    \A res \in {7, 9} : \A hex \in app.hexDataByResolution[res] : hex.h3[1] = res

\* No request, no start of the animation is pending and updateVisualization
\* has run at the zoom of the map.
Settled ==
    app.inflight = <<>> /\ ~app.starting /\ app.zoomInfo = app.zoom

\* C27: whenever the fade animation loop has stopped at a zoom of resolution
\* r, 7 or 9, with heatData holding cells of that resolution, every cell of
\* heatData is in hexDataByResolution[r] and is not fading out.
C27_ShownWhenStopped ==
    LET r == BeautyHeatmap_getH3Resolution(app.zoom)
    IN  (/\ app.fadeAnimationId = 0 /\ Settled /\ C25_CellsOfTheirResolution
         /\ r \in {7, 9} /\ app.heatData # {}
         /\ \A h3 \in app.heatData : h3[1] = r)
        => \A h3 \in app.heatData :
              \E hex \in app.hexDataByResolution[r] :
                 hex.h3 = h3 /\ hex.fadeOutAge = NoAge

\* The hexagons and points of the object, and those within FADE_DURATION of
\* a spawn or fade-out time.
Elements(obj) ==
    obj.hexDataByResolution[7] \cup obj.hexDataByResolution[9]

InAnimation(obj) ==
    \/ \E hex \in Elements(obj) : Fading(hex.spawnAge) \/ Fading(hex.fadeOutAge)
    \/ \E point \in obj.pointData :
          \/ Fading(point.spawnAge) \/ Fading(point.fadeOutAge)
          \/ Fading(point.textSpawnAge) \/ Fading(point.textFadeOutAge)

\* A step is a frame of the animation loop.
IsFrame == \E id \in app.frames : app' = animate(app, id)

====
